---- MODULE Spec2Model ----
(***************************************************************************)
(* A model of the authentication core of the Relate Mail desktop client    *)
(* (src/desktop/src-tauri/src/commands): the credential vault of auth.rs   *)
(* with the shared AppState view of mod.rs and its reader in api.rs, and   *)
(* the OIDC authorization flow of oidc.rs.                                 *)
(*                                                                         *)
(* The vault commands are async Tauri commands, so several may run at the  *)
(* same time.  Each command is modelled as a process whose steps are its   *)
(* accesses to shared state: one keyring call or one RwLock access per     *)
(* step, the local computation in between being part of the step.          *)
(***************************************************************************)
EXTENDS Integers, Sequences, FiniteSets, TLC

\* Bound: the number of vault commands invoked in one run.
MaxInvocations == 3
\* Bound: the number of start_oidc_auth invocations in one run.
MaxAuthFlows == 2
\* Bound: the connections a bound listener holds before they are accepted.
MaxBacklog == 1

\* Option<T>: None, or Some(x).
None == <<>>
Some(x) == <<x>>

\* The command handlers that may run at the same time.
Handlers == {1, 2}

\* Sample values of the fields of an Account and of an API key.
AccountIds == {"id1", "id2"}
DisplayNames == {"n1", "n2"}
ServerUrls == {"u1", "u2"}
UserEmails == {"e1", "e2"}
ApiKeys == {"k1", "k2"}
\* last_used_at as the caller passes it, and as set_active_account stamps it.
CallerTime == "t0"
UtcNow == "t1"

\* struct Account, without api_key_id, scopes and created_at: no command reads
\* them, they are stored and returned as given.
Accounts ==
  [id : AccountIds, display_name : DisplayNames, server_url : ServerUrls,
   user_email : UserEmails, last_used_at : {CallerTime}]

\* AccountsData::default()
DefaultAccountsData == [accounts |-> <<>>, active_account_id |-> None]

\* A vault written by a version that stored no active_account_id: serde reads
\* the missing Option field as None.
LegacyAccountsData ==
  [accounts |-> <<[id |-> "id1", display_name |-> "n1", server_url |-> "u1",
                   user_email |-> "e1", last_used_at |-> CallerTime]>>,
   active_account_id |-> None]

VARIABLES
  accounts_entry,   \* keyring entry "accounts": None (NoEntry) or Some(AccountsData)
  api_key_entries,  \* keyring entries "api_key_{id}": id -> Option<key>
  server_url,       \* AppState.server_url
  api_key,          \* AppState.api_key
  cmd,              \* per handler: the running command, its locals, its position
  req,              \* make_request: its locals and position
  published,        \* the (server_url, api_key) pairs a command set out to write
  invocations       \* commands invoked so far

vaultVars ==
  <<accounts_entry, api_key_entries, server_url, api_key, cmd, req, published,
    invocations>>

VARIABLES
  flow,        \* per invocation slot of start_oidc_auth: its locals and position
  listener,    \* who has 127.0.0.1:CALLBACK_PORT bound: None or Some(flow)
  backlog,     \* connections made to the port and not yet accepted
  auth_flows   \* start_oidc_auth invocations so far

oidcVars == <<flow, listener, backlog, auth_flows>>

VARIABLES
  disc,        \* the invocation of discover_server: its position and result
  codec        \* a string taken through urlencoding_encode and urlencoding_decode

callVars == <<disc, codec>>

vars == <<vaultVars, oidcVars, callVars>>

----------------------------------------------------------------------------
(* auth.rs: the pure parts of the commands *)

\* load_accounts_data: NoEntry reads as the default.
LoadAccountsData(entry) == IF entry = None THEN DefaultAccountsData ELSE entry[1]

\* accounts.iter().find(|a| a.id == id): the first account with that id.
FindAccount(accounts, id) ==
  LET hits == {i \in 1..Len(accounts) : accounts[i].id = id}
  IN IF hits = {} THEN None
     ELSE Some(accounts[CHOOSE i \in hits : \A j \in hits : i <= j])

\* position() comparing the id instead of (server_url, user_email).
ExistingIdxById(accounts, account) ==
  LET hits == {i \in 1..Len(accounts) : accounts[i].id = account.id}
  IN IF hits = {} THEN 0 ELSE CHOOSE i \in hits : \A j \in hits : i <= j

\* accounts.iter().position(same server_url and user_email); 0 for None.
ExistingIdx(accounts, account) ==
  LET hits == {i \in 1..Len(accounts) :
                 /\ accounts[i].server_url = account.server_url
                 /\ accounts[i].user_email = account.user_email}
  IN IF hits = {} THEN 0 ELSE CHOOSE i \in hits : \A j \in hits : i <= j

\* The secret stored under the caller's id also when the account exists.
CallerSuppliedId(data, account) == account.id

\* save_account: the id the secret is stored under.
ResolvedId(data, account) ==
  LET idx == ExistingIdx(data.accounts, account)
  IN IF idx > 0 THEN data.accounts[idx].id ELSE account.id

\* save_account: data after the update or the append.
SaveAccountData(data, account) ==
  LET idx == ExistingIdx(data.accounts, account)
  IN IF idx > 0
     THEN [accounts |->
             [data.accounts EXCEPT
                ![idx] = [account EXCEPT !.id = data.accounts[idx].id]],
           active_account_id |-> Some(data.accounts[idx].id)]
     ELSE [accounts |-> Append(data.accounts, account),
           active_account_id |-> Some(account.id)]

\* delete_account: accounts.retain(|a| a.id != account_id)
Retain(accounts, account_id) ==
  SelectSeq(accounts, LAMBDA a : a.id # account_id)

\* delete_account with the promotion left out: the pointer is kept as it was.
DeleteActiveKept(data, remaining, account_id) == data.active_account_id

\* delete_account: the active pointer after the removal.
DeleteActive(data, remaining, account_id) ==
  IF data.active_account_id = Some(account_id)
  THEN IF remaining = <<>> THEN None ELSE Some(remaining[1].id)
  ELSE data.active_account_id

\* delete_account: data after the removal.
DeleteAccountData(data, account_id) ==
  LET remaining == Retain(data.accounts, account_id)
  IN [accounts |-> remaining,
      active_account_id |-> DeleteActive(data, remaining, account_id)]

\* set_active_account: data with the pointer set and last_used_at stamped on
\* the first account with that id.
SetActiveData(data, account_id) ==
  LET hits == {i \in 1..Len(data.accounts) : data.accounts[i].id = account_id}
      first == CHOOSE i \in hits : \A j \in hits : i <= j
  IN [accounts |->
        IF hits = {} THEN data.accounts
        ELSE [data.accounts EXCEPT ![first].last_used_at = UtcNow],
      active_account_id |-> Some(account_id)]

\* load_accounts: whether the first account is to be selected.
NeedsAutoSelect(data) ==
  data.active_account_id = None /\ data.accounts # <<>>

\* load_accounts: data with the first account selected.
AutoSelectData(data) ==
  [data EXCEPT !.active_account_id = Some(data.accounts[1].id)]

\* load_accounts and delete_account: the account the active pointer finds.
ActiveAccount(data) ==
  IF data.active_account_id = None THEN None
  ELSE FindAccount(data.accounts, data.active_account_id[1])

----------------------------------------------------------------------------
(* The commands and their handlers *)

NoAccount ==
  [id |-> "", display_name |-> "", server_url |-> "", user_email |-> "",
   last_used_at |-> ""]

\* The invocations a frontend can make, saving one of `accounts`.
CommandsOn(accounts) ==
  {[op |-> "load_accounts", account |-> NoAccount, api_key |-> "",
    account_id |-> ""]}
  \cup {[op |-> "save_account", account |-> a, api_key |-> k, account_id |-> ""] :
          a \in accounts, k \in ApiKeys}
  \cup {[op |-> o, account |-> NoAccount, api_key |-> "", account_id |-> i] :
          o \in {"delete_account", "set_active_account"}, i \in AccountIds}

\* The keyring entries and AppState as a command finds them when it is invoked.
Snapshot ==
  [accounts_entry |-> accounts_entry, api_key_entries |-> api_key_entries,
   server_url |-> server_url, api_key |-> api_key]

NoSnapshot ==
  [accounts_entry |-> None, api_key_entries |-> [i \in AccountIds |-> None],
   server_url |-> None, api_key |-> None]

\* A handler that runs no command.
Idle ==
  [op |-> "", account |-> NoAccount, api_key |-> "", account_id |-> "",
   pc |-> "idle",
   before |-> NoSnapshot,           \* what it found when invoked
   loaded |-> DefaultAccountsData,  \* what load_accounts_data returned
   data |-> DefaultAccountsData,    \* the local `data`
   pub_url |-> None, pub_key |-> None,  \* what is being written to AppState
   failed |-> "",                   \* the keyring call that returned a failure
   held |-> {},                     \* the AppState locks it holds
   result |-> ""]

Goto(h, pc) == cmd' = [cmd EXCEPT ![h].pc = pc]

\* The command returns: Ok, or the error.
Finish(c, result) == [c EXCEPT !.pc = "done", !.result = result]

\* The command goes on to write (url, key) into AppState.
Publish(c, url, key) ==
  [c EXCEPT !.pc = "write_url", !.pub_url = url, !.pub_key = key]

\* No request is being made.
NoRequest == [pc |-> "idle", server_url |-> None, api_key |-> None, result |-> ""]

VaultInit ==
  /\ accounts_entry \in {None, Some(LegacyAccountsData)}
  /\ api_key_entries =
       [i \in AccountIds |->
          IF accounts_entry # None /\ i = "id1" THEN Some("k1") ELSE None]
  /\ server_url = None
  /\ api_key = None
  /\ cmd = [h \in Handlers |-> Idle]
  /\ req = NoRequest
  /\ published = {}
  /\ invocations = 0

\* The slots start_oidc_auth invocations run in.
Flows == {1, 2}

\* A slot in which no start_oidc_auth runs.  The locals of an invocation:
IdleFlow ==
  [pc |-> "Idle",
   discovery |-> None,      \* the answer to the GET of the OpenID configuration
   state |-> <<>>,          \* generate_state()
   code_verifier |-> "",    \* generate_code_verifier()
   auth_url |-> None,       \* the authorization URL given to the browser
   conn |-> None,           \* the accepted connection: what its client does
   callback |-> None,       \* the query of the request read from it
   code |-> <<>>,           \* the code wait_for_callback returned
   token_request |-> None,  \* the form POSTed to the token endpoint
   token_response |-> None, \* the answer to it, if one came
   result |-> [kind |-> "", msg |-> "", detail |-> <<>>]]

OidcInit ==
  /\ flow = [f \in Flows |-> IdleFlow]
  /\ listener = None
  /\ backlog = <<>>
  /\ auth_flows = 0

\* discover_server is not running.
IdleDiscovery ==
  [pc |-> "Idle",
   discovery |-> None,   \* the answer to GET /api/discovery
   config |-> None,      \* the answer to GET /config/config.json
   result |-> [kind |-> "", msg |-> "", oidc_config |-> None]]

\* No string is being coded.
IdleCodec == [pc |-> "idle", s |-> <<>>, encoded |-> <<>>, decoded |-> <<>>]

CallsInit == disc = IdleDiscovery /\ codec = IdleCodec

Init == VaultInit /\ OidcInit /\ CallsInit

----------------------------------------------------------------------------
(* The steps of the vault commands (auth.rs) *)

\* A frontend invokes one of `commands`; it is dispatched to the first free
\* handler (the handlers are interchangeable).  With `serial`, only when no
\* other command is running, and what the command finds is recorded.
Invoke(h, serial, commands) ==
  /\ cmd[h].pc = "idle"
  /\ invocations < MaxInvocations
  /\ \A g \in Handlers : g < h => cmd[g].pc # "idle"
  /\ serial => \A g \in Handlers : cmd[g].pc = "idle"
  /\ \E c \in commands :
       cmd' = [cmd EXCEPT ![h] =
                 [Idle EXCEPT !.op = c.op, !.account = c.account,
                              !.api_key = c.api_key, !.account_id = c.account_id,
                              !.before =
                                IF serial THEN Snapshot ELSE NoSnapshot,
                              !.pc = "load_data"]]
  /\ invocations' = invocations + 1
  /\ UNCHANGED <<accounts_entry, api_key_entries, server_url, api_key, req,
                 published>>

\* load_accounts, lines 116-122: load_accounts_data()?, then the auto-selection,
\* whose save is the next step.
LoadAccountsRead(h) ==
  /\ cmd[h].pc = "load_data" /\ cmd[h].op = "load_accounts"
  /\ LET d == LoadAccountsData(accounts_entry)
         c == [cmd[h] EXCEPT !.loaded = d, !.data = d]
     IN cmd' = [cmd EXCEPT ![h] =
                  IF NeedsAutoSelect(d)
                  THEN [c EXCEPT !.data = AutoSelectData(d), !.pc = "save_data"]
                  ELSE IF ActiveAccount(d) # None
                       THEN [c EXCEPT !.pc = "get_key"]
                       ELSE Finish(c, "Ok")]
  /\ UNCHANGED <<accounts_entry, api_key_entries, server_url, api_key, req,
                 published, invocations>>

\* save_account, lines 156-182 without the keyring write: load_accounts_data()?
\* and the update or append of the local data.
SaveAccountRead(h) ==
  /\ cmd[h].pc = "load_data" /\ cmd[h].op = "save_account"
  /\ LET d == LoadAccountsData(accounts_entry)
     IN cmd' = [cmd EXCEPT ![h] =
                  [@ EXCEPT !.loaded = d,
                            !.data = SaveAccountData(d, cmd[h].account),
                            !.pc = "save_key"]]
  /\ UNCHANGED <<accounts_entry, api_key_entries, server_url, api_key, req,
                 published, invocations>>

\* save_account, lines 171 and 175: save_api_key_for_account(resolved id, api_key)?
SaveAccountKey(h) ==
  /\ cmd[h].pc = "save_key"
  /\ api_key_entries' =
       [api_key_entries EXCEPT
          ![ResolvedId(cmd[h].loaded, cmd[h].account)] = Some(cmd[h].api_key)]
  /\ Goto(h, "save_data")
  /\ UNCHANGED <<accounts_entry, server_url, api_key, req, published,
                 invocations>>

\* delete_account, lines 210-213: load_accounts_data()? and the retain; the new
\* active pointer of line 220 is local too.
DeleteAccountRead(h) ==
  /\ cmd[h].pc = "load_data" /\ cmd[h].op = "delete_account"
  /\ LET d == LoadAccountsData(accounts_entry)
     IN cmd' = [cmd EXCEPT ![h] =
                  [@ EXCEPT !.loaded = d,
                            !.data = DeleteAccountData(d, cmd[h].account_id),
                            !.pc = "delete_key"]]
  /\ UNCHANGED <<accounts_entry, api_key_entries, server_url, api_key, req,
                 published, invocations>>

\* delete_account without the else branch of lines 236-246: nothing is cleared.
AfterDeleteKeyNoClear(c) ==
  IF /\ c.loaded.active_account_id = Some(c.account_id)
     /\ ActiveAccount(c.data) # None
  THEN [c EXCEPT !.pc = "get_key"]
  ELSE [c EXCEPT !.pc = "save_data"]

\* delete_account after the key is deleted, lines 219-247: what it does next.
AfterDeleteKey(c) ==
  IF c.loaded.active_account_id = Some(c.account_id)
  THEN IF c.data.active_account_id # None
       THEN IF ActiveAccount(c.data) # None
            THEN [c EXCEPT !.pc = "get_key"]
            ELSE [c EXCEPT !.pc = "save_data"]
       ELSE Publish(c, None, None)
  ELSE [c EXCEPT !.pc = "save_data"]

\* delete_account, line 216: delete_api_key_for_account.  The result of
\* delete_credential() is dropped (line 107): the entry is gone, or the
\* keyring failed to delete it and the command goes on all the same.
DeleteAccountKey(h) ==
  /\ cmd[h].pc = "delete_key"
  /\ \E deleted \in BOOLEAN :
       /\ api_key_entries' =
            IF deleted THEN [api_key_entries EXCEPT ![cmd[h].account_id] = None]
            ELSE api_key_entries
       /\ cmd' = [cmd EXCEPT ![h] =
                    AfterDeleteKey(
                      IF ~deleted /\ api_key_entries[cmd[h].account_id] # None
                      THEN [cmd[h] EXCEPT !.failed = "delete_key"]
                      ELSE cmd[h])]
  /\ UNCHANGED <<accounts_entry, server_url, api_key, req, published,
                 invocations>>

\* set_active_account, lines 260-268: load_accounts_data()? and the lookup.
SetActiveRead(h) ==
  /\ cmd[h].pc = "load_data" /\ cmd[h].op = "set_active_account"
  /\ LET d == LoadAccountsData(accounts_entry)
         c == [cmd[h] EXCEPT !.loaded = d, !.data = d]
     IN cmd' = [cmd EXCEPT ![h] =
                  IF FindAccount(d.accounts, cmd[h].account_id) = None
                  THEN Finish(c, "AccountNotFound")
                  ELSE [c EXCEPT !.pc = "get_key"]]
  /\ UNCHANGED <<accounts_entry, api_key_entries, server_url, api_key, req,
                 published, invocations>>

\* The id whose key a command reads: the active account's (load_accounts line
\* 127, delete_account line 225), or the given one (set_active_account line 271).
KeyOwner(c) ==
  IF c.op = "set_active_account" THEN c.account_id
  ELSE c.data.active_account_id[1]

\* set_active_account with the check of line 272 left out: the account is
\* activated whether it has a key or not.
SetActiveAfterKeyUnchecked(c, key) ==
  [c EXCEPT !.data = SetActiveData(c.data, c.account_id),
            !.pub_url =
              Some(FindAccount(c.loaded.accounts, c.account_id)[1].server_url),
            !.pub_key = key,
            !.pc = "save_data"]

\* set_active_account, lines 271-280: no key is an error; else the pointer and
\* last_used_at are set, and the write is next.
SetActiveAfterKey(c, key) ==
  IF key = None THEN Finish(c, "KeyringError")
  ELSE [c EXCEPT !.data = SetActiveData(c.data, c.account_id),
                 !.pub_url =
                   Some(FindAccount(c.loaded.accounts, c.account_id)[1].server_url),
                 !.pub_key = key,
                 !.pc = "save_data"]

\* What a command does with the key it read.
AfterGetKey(c, key) ==
  CASE c.op = "load_accounts" ->
         IF key = None THEN Finish(c, "Ok")
         ELSE Publish(c, Some(ActiveAccount(c.data)[1].server_url), key)
    [] c.op = "delete_account" ->
         IF key = None THEN [c EXCEPT !.pc = "save_data"]
         ELSE Publish(c, Some(ActiveAccount(c.data)[1].server_url), key)
    [] OTHER -> SetActiveAfterKey(c, key)

\* get_api_key_for_account(id)?
GetApiKey(h) ==
  /\ cmd[h].pc = "get_key"
  /\ cmd' = [cmd EXCEPT ![h] = AfterGetKey(cmd[h], api_key_entries[KeyOwner(cmd[h])])]
  /\ UNCHANGED <<accounts_entry, api_key_entries, server_url, api_key, req,
                 published, invocations>>

\* What a command does once save_accounts_data(&data) returned Ok.
AfterSaveData(c) ==
  CASE c.op = "load_accounts" -> [c EXCEPT !.pc = "get_key"]
    [] c.op = "save_account" ->
         \* lines 188-199: the account the active pointer finds, and the given key
         Publish(c, Some(ActiveAccount(c.data)[1].server_url), Some(c.api_key))
    [] c.op = "delete_account" -> Finish(c, "Ok")
    [] OTHER -> [c EXCEPT !.pc = "write_url"]

\* save_accounts_data(&data)?: the whole AccountsData is written in one call.
SaveAccountsData(h) ==
  /\ cmd[h].pc = "save_data"
  /\ accounts_entry' = Some(cmd[h].data)
  /\ cmd' = [cmd EXCEPT ![h] = AfterSaveData(cmd[h])]
  /\ UNCHANGED <<api_key_entries, server_url, api_key, req, published,
                 invocations>>

\* state.server_url.write(): the guard is dropped at the end of the statement.
\* Guards that outlive their match statement.
KeepGuard(c, lock) == c

\* The guard of a lock is dropped at the end of the match statement that took it.
DropGuard(c, lock) == [c EXCEPT !.held = @ \ {lock}]

\* state.<lock>.write() returns the guard: no other command holds the lock.
\* (make_request holds a read lock within one step only.)
AcquireWrite(h, lock, pc) ==
  /\ \A g \in Handlers : lock \notin cmd[g].held
  /\ cmd' = [cmd EXCEPT ![h].held = @ \cup {lock}, ![h].pc = pc]
  /\ UNCHANGED <<accounts_entry, api_key_entries, server_url, api_key, req,
                 published, invocations>>

\* state.server_url.write() of lines 128, 192, 226, 237, 285
LockServerUrl(h) ==
  /\ cmd[h].pc = "write_url"
  /\ AcquireWrite(h, "server_url", "url_locked")

\* *guard = ... of lines 129, 193, 227, 238, 286, and the end of the match
WriteServerUrl(h) ==
  /\ cmd[h].pc = "url_locked"
  /\ server_url' = cmd[h].pub_url
  /\ published' = published \cup {<<cmd[h].pub_url, cmd[h].pub_key>>}
  /\ cmd' = [cmd EXCEPT ![h] = [DropGuard(cmd[h], "server_url") EXCEPT !.pc = "write_key"]]
  /\ UNCHANGED <<accounts_entry, api_key_entries, api_key, req, invocations>>

\* state.api_key.write() of lines 132, 196, 230, 241, 289
LockApiKey(h) ==
  /\ cmd[h].pc = "write_key"
  /\ AcquireWrite(h, "api_key", "key_locked")

\* What a command does once both fields are written.
AfterWriteKey(c) ==
  IF c.op = "delete_account" THEN [c EXCEPT !.pc = "save_data"]
  ELSE Finish(c, "Ok")

\* *guard = ... of lines 133, 197, 231, 242, 290, and the end of the match
WriteApiKey(h) ==
  /\ cmd[h].pc = "key_locked"
  /\ api_key' = cmd[h].pub_key
  /\ cmd' = [cmd EXCEPT ![h] = AfterWriteKey(DropGuard(cmd[h], "api_key"))]
  /\ UNCHANGED <<accounts_entry, api_key_entries, server_url, req, published,
                 invocations>>

\* A keyring call returns an error other than NoEntry and `?` returns it:
\* Entry::new, get_password or set_password failed.
KeyringCallPcs == {"load_data", "get_key", "save_key", "delete_key", "save_data"}

KeyringFails(h) ==
  /\ cmd[h].pc \in KeyringCallPcs
  /\ cmd' = [cmd EXCEPT ![h] =
                Finish([cmd[h] EXCEPT !.failed = cmd[h].pc], "KeyringError")]
  /\ UNCHANGED <<accounts_entry, api_key_entries, server_url, api_key, req,
                 published, invocations>>

\* The result is handed to the frontend and the handler is free again.
Return(h) ==
  /\ cmd[h].pc = "done"
  /\ cmd' = [cmd EXCEPT ![h] = Idle]
  /\ UNCHANGED <<accounts_entry, api_key_entries, server_url, api_key, req,
                 published, invocations>>

Step(h) ==
  \/ LoadAccountsRead(h)
  \/ SaveAccountRead(h)
  \/ SaveAccountKey(h)
  \/ DeleteAccountRead(h)
  \/ DeleteAccountKey(h)
  \/ SetActiveRead(h)
  \/ GetApiKey(h)
  \/ SaveAccountsData(h)
  \/ LockServerUrl(h)
  \/ WriteServerUrl(h)
  \/ LockApiKey(h)
  \/ WriteApiKey(h)
  \/ KeyringFails(h)
  \/ Return(h)

\* Commands one after the other.
NextSeq ==
  /\ \E h \in Handlers : Invoke(h, TRUE, CommandsOn(Accounts)) \/ Step(h)
  /\ UNCHANGED <<oidcVars, callVars>>

SpecSeq == Init /\ [][NextSeq]_vars

\* Commands one after the other on a vault that starts empty.
InitEmpty == Init /\ accounts_entry = None

SpecSeqEmpty == InitEmpty /\ [][NextSeq]_vars

\* Commands one after the other, none of which returns an error.
NextSeqOk ==
  /\ NextSeq
  /\ \A h \in Handlers : cmd'[h].result \in {"", "Ok"}

SpecSeqOk == InitEmpty /\ [][NextSeqOk]_vars

\* Commands at the same time.
\* The accounts saved when commands overlap: one display name and one user
\* email are enough there.
RacingAccounts == {a \in Accounts : a.display_name = "n1" /\ a.user_email = "e1"}

Next ==
  /\ \E h \in Handlers : Invoke(h, FALSE, CommandsOn(RacingAccounts)) \/ Step(h)
  /\ UNCHANGED <<oidcVars, callVars>>

Spec == Init /\ [][Next]_vars

----------------------------------------------------------------------------
(* api.rs: make_request reads the view, one lock after the other *)

\* api_get, api_post, ...: a request is made.
MakeRequest ==
  /\ req.pc = "idle"
  /\ req' = [req EXCEPT !.pc = "read_url"]
  /\ UNCHANGED <<accounts_entry, api_key_entries, server_url, api_key, cmd,
                 published, invocations>>

\* lines 34-39: state.server_url.read().unwrap().clone().ok_or_else(NotConfigured)?
ReadServerUrl ==
  /\ req.pc = "read_url"
  /\ \A g \in Handlers : "server_url" \notin cmd[g].held
  /\ req' = IF server_url = None
            THEN [req EXCEPT !.pc = "done", !.result = "NotConfigured"]
            ELSE [req EXCEPT !.pc = "read_key", !.server_url = server_url]
  /\ UNCHANGED <<accounts_entry, api_key_entries, server_url, api_key, cmd,
                 published, invocations>>

\* lines 41-46: state.api_key.read().unwrap().clone().ok_or_else(NotConfigured)?;
\* the request is then sent to server_url with the X-Api-Key header.
ReadApiKey ==
  /\ req.pc = "read_key"
  /\ \A g \in Handlers : "api_key" \notin cmd[g].held
  /\ req' = IF api_key = None
            THEN [req EXCEPT !.pc = "done", !.result = "NotConfigured"]
            ELSE [req EXCEPT !.pc = "done", !.api_key = api_key, !.result = "Sent"]
  /\ UNCHANGED <<accounts_entry, api_key_entries, server_url, api_key, cmd,
                 published, invocations>>

\* make_request returns.
RequestReturns ==
  /\ req.pc = "done"
  /\ req' = NoRequest
  /\ UNCHANGED <<accounts_entry, api_key_entries, server_url, api_key, cmd,
                 published, invocations>>

\* Commands one after the other, and requests at any time.
NextView ==
  /\ \/ \E h \in Handlers : Invoke(h, TRUE, CommandsOn(RacingAccounts)) \/ Step(h)
     \/ MakeRequest
     \/ ReadServerUrl
     \/ ReadApiKey
     \/ RequestReturns
  /\ UNCHANGED <<oidcVars, callVars>>

SpecView == Init /\ [][NextView]_vars

----------------------------------------------------------------------------
(* oidc.rs: strings, the URL codec and the callback's query *)

\* A string is the sequence of its characters' code points.  The ASCII
\* characters the sample strings use:
Ascii ==
  [c \in {"%", "&", "+", "/", "0", "1", "2", "3", "4", "5", "6", "7", "8", "9",
          "=", "?", "A", "B", "C", "D", "E", "F", "X", "a", "b", "c", "d", "e",
          "f", "k", "l", "o", "r", "s", "t", "u", "x", "y", "z"} |->
     CASE c = "%" -> 37 [] c = "&" -> 38 [] c = "+" -> 43 [] c = "/" -> 47
       [] c = "0" -> 48 [] c = "1" -> 49 [] c = "2" -> 50 [] c = "3" -> 51
       [] c = "4" -> 52 [] c = "5" -> 53 [] c = "6" -> 54 [] c = "7" -> 55
       [] c = "8" -> 56 [] c = "9" -> 57 [] c = "=" -> 61 [] c = "?" -> 63
       [] c = "A" -> 65 [] c = "B" -> 66 [] c = "C" -> 67 [] c = "D" -> 68
       [] c = "E" -> 69 [] c = "F" -> 70 [] c = "X" -> 88 [] c = "a" -> 97
       [] c = "b" -> 98 [] c = "c" -> 99 [] c = "d" -> 100 [] c = "e" -> 101
       [] c = "f" -> 102 [] c = "k" -> 107 [] c = "l" -> 108 [] c = "o" -> 111
       [] c = "r" -> 114 [] c = "s" -> 115 [] c = "t" -> 116 [] c = "u" -> 117
       [] c = "x" -> 120 [] c = "y" -> 121 [] c = "z" -> 122]

\* The string of the given characters.
Str(chars) == [i \in 1..Len(chars) |-> Ascii[chars[i]]]

\* s.bytes(): the UTF-8 encoding of a string (code points below 0x10000).
RECURSIVE Utf8Bytes(_)
Utf8Bytes(s) ==
  IF s = <<>> THEN <<>>
  ELSE LET c == Head(s)
           enc == IF c < 128 THEN <<c>>
                  ELSE IF c < 2048 THEN <<192 + (c \div 64), 128 + (c % 64)>>
                  ELSE <<224 + (c \div 4096), 128 + ((c \div 64) % 64),
                         128 + (c % 64)>>
       IN enc \o Utf8Bytes(Tail(s))

\* The value of a hexadecimal digit, -1 for any other byte.
HexDigit(b) ==
  IF b >= 48 /\ b <= 57 THEN b - 48
  ELSE IF b >= 65 /\ b <= 70 THEN b - 55
  ELSE IF b >= 97 /\ b <= 102 THEN b - 87
  ELSE -1

\* u8::from_str_radix(&format!("{}{}", hi as char, lo as char), 16): -1 for
\* Err.  from_str_radix takes an optional leading '+'.
FromStrRadix16(hi, lo) ==
  IF HexDigit(lo) < 0 THEN -1
  ELSE IF HexDigit(hi) >= 0 THEN 16 * HexDigit(hi) + HexDigit(lo)
  ELSE IF hi = 43 THEN HexDigit(lo)
  ELSE -1

\* urlencoding_decode over the bytes of its argument (lines 121-139): '%' takes
\* the next two bytes ('0' for a missing one) and pushes the byte they spell as
\* a char, or nothing when they spell none; '+' is a space.
RECURSIVE DecodeBytes(_)
DecodeBytes(bytes) ==
  IF bytes = <<>> THEN <<>>
  ELSE IF Head(bytes) = 37
  THEN LET hi == IF Len(bytes) >= 2 THEN bytes[2] ELSE 48
           lo == IF Len(bytes) >= 3 THEN bytes[3] ELSE 48
           byte == FromStrRadix16(hi, lo)
           rest == IF Len(bytes) >= 3 THEN SubSeq(bytes, 4, Len(bytes)) ELSE <<>>
       IN (IF byte >= 0 THEN <<byte>> ELSE <<>>) \o DecodeBytes(rest)
  ELSE IF Head(bytes) = 43 THEN <<32>> \o DecodeBytes(Tail(bytes))
  ELSE <<Head(bytes)>> \o DecodeBytes(Tail(bytes))

urlencoding_decode(s) == DecodeBytes(Utf8Bytes(s))

\* s.split(sep) for a one-character separator: the pieces, at least one.
RECURSIVE Split(_, _)
Split(s, sep) ==
  LET hits == {i \in 1..Len(s) : s[i] = sep}
  IN IF hits = {} THEN <<s>>
     ELSE LET i == CHOOSE k \in hits : \A j \in hits : k <= j
          IN <<SubSeq(s, 1, i - 1)>> \o Split(SubSeq(s, i + 1, Len(s)), sep)

\* s.splitn(2, sep): the part before the first separator, and the rest if any.
Splitn2(s, sep) ==
  LET hits == {i \in 1..Len(s) : s[i] = sep}
  IN IF hits = {} THEN <<s>>
     ELSE LET i == CHOOSE k \in hits : \A j \in hits : k <= j
          IN <<SubSeq(s, 1, i - 1), SubSeq(s, i + 1, Len(s))>>

\* parse_query_params (lines 106-119): the decoded (key, value) pairs in the
\* order of the query; collect() into a HashMap keeps a key's last value.
QueryPairs(query) ==
  LET pairs == Split(query, Ascii["&"])
  IN [i \in 1..Len(pairs) |->
        LET parts == Splitn2(pairs[i], Ascii["="])
        IN <<urlencoding_decode(parts[1]),
             IF Len(parts) > 1 THEN urlencoding_decode(parts[2]) ELSE <<>>>>]

\* params.get(key).cloned(): the value of the last pair with that key.
GetParam(query, key) ==
  LET pairs == QueryPairs(query)
      hits == {i \in 1..Len(pairs) : pairs[i][1] = key}
  IN IF hits = {} THEN None
     ELSE Some(pairs[CHOOSE i \in hits : \A j \in hits : j <= i][2])

\* wait_for_callback, lines 361-364: the query of the request's path.
QueryOf(path) ==
  LET parts == Splitn2(path, Ascii["?"])
  IN IF Len(parts) > 1 THEN parts[2] ELSE <<>>

KeyCode == Str(<<"c", "o", "d", "e">>)
KeyState == Str(<<"s", "t", "a", "t", "e">>)
KeyError == Str(<<"e", "r", "r", "o", "r">>)

----------------------------------------------------------------------------
(* oidc.rs: start_oidc_auth and wait_for_callback *)

CALLBACK_PORT == 23847

\* The bytes urlencoding_encode leaves as they are (line 145).
Unreserved(b) ==
  \/ b >= 65 /\ b <= 90
  \/ b >= 97 /\ b <= 122
  \/ b >= 48 /\ b <= 57
  \/ b \in {45, 95, 46, 126}

\* The upper-case hexadecimal digit of n < 16.
HexChar(n) == IF n < 10 THEN 48 + n ELSE 55 + n

\* urlencoding_encode (lines 141-154): "%XX" for every other byte.
RECURSIVE EncodeBytes(_)
EncodeBytes(bytes) ==
  IF bytes = <<>> THEN <<>>
  ELSE LET b == Head(bytes)
       IN (IF Unreserved(b) THEN <<b>>
           ELSE <<37, HexChar(b \div 16), HexChar(b % 16)>>)
          \o EncodeBytes(Tail(bytes))

urlencoding_encode(s) == EncodeBytes(Utf8Bytes(s))

\* Sample values of generate_state() and generate_code_verifier(), and the
\* draws of the two by one invocation.
States == {Str(<<"a", "b">>), Str(<<"x", "y">>)}
CodeVerifiers == {"v1", "v2"}
PkceDraws == {<<Str(<<"a", "b">>), "v1">>, <<Str(<<"x", "y">>), "v2">>}

\* generate_code_challenge: base64url(SHA-256(verifier)), a function of the
\* verifier that tells the sample verifiers apart.
generate_code_challenge(verifier) == <<"S256", verifier>>

\* line 274: the redirect URI of the bound port.
RedirectUri(port) == <<"http://127.0.0.1:", port, "/auth/callback">>

\* The statuses a provider answers with, and StatusCode::is_success.
Statuses == {200, 400}
IsSuccess(status) == status >= 200 /\ status <= 299

\* The queries of the requests a client of the callback port sends.
QCode == Str(<<"c", "o", "d", "e", "=", "X">>)
QState == Str(<<"s", "t", "a", "t", "e", "=">>)
QError == Str(<<"e", "r", "r", "o", "r", "=", "E">>)
QAb == Str(<<"a", "b">>)
QAmp == Str(<<"&">>)

SampleQueries ==
  {QCode \o QAmp \o QState \o s : s \in States}   \* a code and a state
  \cup {QCode,                                    \* a code and no state
        QCode \o QAmp \o QState \o Str(<<"%", "6", "1", "b">>),
        QCode \o QAmp \o QState \o Str(<<"a", "b", "+">>),
        QState \o Str(<<"x", "y">>) \o QAmp \o QCode \o QAmp \o QState \o QAb,
        QError \o QAmp \o QState \o QAb,          \* the provider's error
        QCode \o QAmp \o QError \o QAmp \o QState \o QAb,
        QState \o QAb}                            \* neither code nor error

\* The request paths: with a sample query, without a query, and the empty
\* path of a request that has no request line.
SamplePaths ==
  {Str(<<"/", "c", "b", "?">>) \o q : q \in SampleQueries}
  \cup {Str(<<"/", "c", "b">>), <<>>}

\* What the client of a connection does: it sends a request, it sends nothing
\* and keeps the connection open, or the read from it fails.
Clients ==
  [behaviour : {"request"}, path : SamplePaths]
  \cup [behaviour : {"silent", "reset"}, path : {<<>>}]

\* A result: its variant, the fixed part of its message, and the value the
\* message is formatted with.
ErrorWith(kind, msg, detail) == [kind |-> kind, msg |-> msg, detail |-> detail]
ErrorOf(kind, msg) == ErrorWith(kind, msg, <<>>)

\* An invocation that keeps the port bound when it returns.
ContinueBound(f, c) ==
  /\ flow' = [flow EXCEPT ![f] = c]
  /\ UNCHANGED <<listener, backlog>>

\* The invocation goes on as c.  When it returns, `listener` is dropped with
\* its locals, and with it the connections nobody accepted.
Continue(f, c) ==
  LET dropped == c.pc = "Returned" /\ listener = Some(f)
  IN /\ flow' = [flow EXCEPT ![f] = c]
     /\ listener' = IF dropped THEN None ELSE listener
     /\ backlog' = IF dropped THEN <<>> ELSE backlog

Fail(c, kind, msg) == [c EXCEPT !.pc = "Returned", !.result = ErrorOf(kind, msg)]

\* The frontend invokes start_oidc_auth.
StartOidcAuth(f) ==
  /\ flow[f].pc = "Idle"
  /\ auth_flows < MaxAuthFlows
  /\ \A g \in Flows : g < f => flow[g].pc # "Idle"
  /\ flow' = [flow EXCEPT ![f].pc = "Discovering"]
  /\ auth_flows' = auth_flows + 1
  /\ UNCHANGED <<listener, backlog>>

\* lines 239-243: the GET of the OpenID configuration gets no response.
DiscoveryRequestFails(f) ==
  /\ flow[f].pc = "Discovering"
  /\ Continue(f, Fail(flow[f], "DiscoveryFailed", "Failed to fetch OIDC config"))
  /\ UNCHANGED auth_flows

\* lines 245-253, what is done with the response: its status is not looked
\* at; a body that is no OpenIdConfiguration is an error; else the PKCE
\* parameters are generated.
AfterDiscovery(c, status, body_parses, state, code_verifier) ==
  LET d == [c EXCEPT !.discovery =
                       Some([status |-> status, body_parses |-> body_parses])]
  IN IF body_parses
     THEN [d EXCEPT !.pc = "Binding", !.state = state,
                    !.code_verifier = code_verifier]
     ELSE Fail(d, "DiscoveryFailed", "Invalid OIDC config")

\* lines 239-253: the provider answers the GET of the OpenID configuration.
DiscoveryResponse(f) ==
  /\ flow[f].pc = "Discovering"
  /\ \E status \in Statuses, body_parses \in BOOLEAN, pkce \in PkceDraws :
       Continue(f, AfterDiscovery(flow[f], status, body_parses, pkce[1], pkce[2]))
  /\ UNCHANGED auth_flows

\* A bind that succeeds on a port that is bound.
BindListenerAnyway(f) ==
  /\ flow[f].pc = "Binding"
  /\ listener' = Some(f)
  /\ flow' = [flow EXCEPT ![f].pc = "ListenerBound"]
  /\ UNCHANGED <<backlog, auth_flows>>

\* lines 257-261: TcpListener::bind on the fixed port, an error when the port
\* is bound.
BindListener(f) ==
  /\ flow[f].pc = "Binding"
  /\ IF listener = None
     THEN /\ listener' = Some(f)
          /\ flow' = [flow EXCEPT ![f].pc = "ListenerBound"]
          /\ UNCHANGED backlog
     ELSE Continue(f, Fail(flow[f], "AuthFailed", "Port unavailable"))
  /\ UNCHANGED auth_flows

\* lines 274-286: what the authorization URL holds of this invocation.
AuthUrl(c) ==
  [redirect_uri |-> RedirectUri(CALLBACK_PORT),
   state |-> urlencoding_encode(c.state),
   code_challenge |-> generate_code_challenge(c.code_verifier)]

\* lines 274-290: the authorization URL is built and opened in the browser.
OpenBrowser(f) ==
  /\ flow[f].pc = "ListenerBound"
  /\ \E opened \in BOOLEAN :
       Continue(f, IF opened
                   THEN [flow[f] EXCEPT !.pc = "AwaitingCallback",
                                        !.auth_url = Some(AuthUrl(flow[f]))]
                   ELSE Fail(flow[f], "AuthFailed", "Failed to open browser"))
  /\ UNCHANGED auth_flows

\* The browser after the redirect, or any other local process, connects to
\* the bound port.
ClientConnects ==
  /\ listener # None
  /\ Len(backlog) < MaxBacklog
  /\ \E client \in Clients : backlog' = Append(backlog, client)
  /\ UNCHANGED <<flow, listener, auth_flows>>

\* A listener that goes on to the next connection while it waits.
AcceptConnectionAgain(f) ==
  /\ flow[f].pc = "AwaitingCallback"
  /\ backlog # <<>>
  /\ flow' = [flow EXCEPT ![f].conn = Some(Head(backlog))]
  /\ backlog' = Tail(backlog)
  /\ UNCHANGED <<listener, auth_flows>>

\* wait_for_callback, lines 340-343: listener.accept() returns a connection.
AcceptConnection(f) ==
  /\ flow[f].pc = "AwaitingCallback"
  /\ flow[f].conn = None
  /\ backlog # <<>>
  /\ flow' = [flow EXCEPT ![f].conn = Some(Head(backlog))]
  /\ backlog' = Tail(backlog)
  /\ UNCHANGED <<listener, auth_flows>>

\* wait_for_callback, lines 346-349: the read from the connection fails.
ReadFails(f) ==
  /\ flow[f].pc = "AwaitingCallback"
  /\ flow[f].conn # None
  /\ flow[f].conn[1].behaviour = "reset"
  /\ Continue(f, Fail(flow[f], "AuthFailed", "Failed to read request"))
  /\ UNCHANGED auth_flows

\* A comparison that lets a callback without a state through.
StateMatchesOrMissing(received_state, state) ==
  received_state = <<>> \/ received_state = state

\* line 302, negated: received_state == state
StateMatches(received_state, state) == received_state = state

\* A listener that looks at the error parameter before the code.
AfterCallbackErrorFirst(c, query) ==
  LET code == GetParam(query, KeyCode)
      state == GetParam(query, KeyState)
      error == GetParam(query, KeyError)
      received_state == IF state = None THEN <<>> ELSE state[1]
      d == [c EXCEPT !.callback = Some(query)]
  IN IF error # None
     THEN [d EXCEPT !.pc = "Returned",
                    !.result = ErrorWith("AuthFailed", "OIDC error", error[1])]
     ELSE IF code = None
     THEN Fail(d, "AuthFailed", "No authorization code received")
     ELSE IF ~StateMatches(received_state, c.state)
     THEN Fail(d, "AuthFailed", "State mismatch")
     ELSE [d EXCEPT !.pc = "ExchangingToken", !.code = code[1]]

\* wait_for_callback, lines 366-399, and start_oidc_auth, lines 299-304: what
\* is done with the query read.  Without a code the error is the provider's
\* or the generic one; a state other than the generated one is an error; else
\* the token exchange is next.
AfterCallback(c, query) ==
  LET code == GetParam(query, KeyCode)
      state == GetParam(query, KeyState)
      error == GetParam(query, KeyError)
      received_state == IF state = None THEN <<>> ELSE state[1]
      d == [c EXCEPT !.callback = Some(query)]
  IN IF code = None
     THEN IF error # None
          THEN [d EXCEPT !.pc = "Returned",
                         !.result = ErrorWith("AuthFailed", "OIDC error", error[1])]
          ELSE Fail(d, "AuthFailed", "No authorization code received")
     ELSE IF ~StateMatches(received_state, c.state)
     THEN Fail(d, "AuthFailed", "State mismatch")
     ELSE [d EXCEPT !.pc = "ExchangingToken", !.code = code[1]]

\* wait_for_callback, lines 345-399: the request is read, parsed and answered,
\* and start_oidc_auth validates what it returns.
ReadRequest(f) ==
  /\ flow[f].pc = "AwaitingCallback"
  /\ flow[f].conn # None
  /\ flow[f].conn[1].behaviour = "request"
  /\ Continue(f, AfterCallback(flow[f], QueryOf(flow[f].conn[1].path)))
  /\ UNCHANGED auth_flows

\* A timeout that guards the accept alone, not the read.
CallbackTimeoutOfAccept(f) ==
  /\ flow[f].pc = "AwaitingCallback"
  /\ flow[f].conn = None
  /\ Continue(f, Fail(flow[f], "Timeout", ""))
  /\ UNCHANGED auth_flows

\* lines 293-298: AUTH_TIMEOUT_SECS pass before wait_for_callback returns.
CallbackTimeout(f) ==
  /\ flow[f].pc = "AwaitingCallback"
  /\ Continue(f, Fail(flow[f], "Timeout", ""))
  /\ UNCHANGED auth_flows

\* A form whose redirect URI is written anew with the host name.
TokenParamsLocalhost(c) ==
  [grant_type |-> "authorization_code",
   code |-> c.code,
   redirect_uri |-> <<"http://localhost:", CALLBACK_PORT, "/auth/callback">>,
   code_verifier |-> c.code_verifier]

\* The form of lines 307-313.
TokenParams(c) ==
  [grant_type |-> "authorization_code",
   code |-> c.code,
   redirect_uri |-> RedirectUri(CALLBACK_PORT),
   code_verifier |-> c.code_verifier]

\* A token exchange that does not look at the status of the answer.
AfterTokenRequestAnyStatus(c, responded, status, body_parses) ==
  LET d == [c EXCEPT !.token_request = Some(TokenParams(c)),
                     !.token_response =
                       IF responded
                       THEN Some([status |-> status, body_parses |-> body_parses])
                       ELSE None]
  IN IF ~responded THEN Fail(d, "TokenExchangeFailed", "Token request failed")
     ELSE IF ~body_parses
     THEN Fail(d, "TokenExchangeFailed", "Invalid token response")
     ELSE [d EXCEPT !.pc = "Returned", !.result = ErrorOf("Ok", "")]

\* lines 315-336, what is done with the token endpoint's answer: no response,
\* a status that is no success and a body that is no TokenResponse are errors.
AfterTokenRequest(c, responded, status, body_parses) ==
  LET d == [c EXCEPT !.token_request = Some(TokenParams(c)),
                     !.token_response =
                       IF responded
                       THEN Some([status |-> status, body_parses |-> body_parses])
                       ELSE None]
  IN IF ~responded THEN Fail(d, "TokenExchangeFailed", "Token request failed")
     ELSE IF ~IsSuccess(status)
     THEN Fail(d, "TokenExchangeFailed", "Token endpoint returned HTTP")
     ELSE IF ~body_parses
     THEN Fail(d, "TokenExchangeFailed", "Invalid token response")
     ELSE [d EXCEPT !.pc = "Returned", !.result = ErrorOf("Ok", "")]

\* lines 315-336: the POST to the token endpoint.
ExchangeToken(f) ==
  /\ flow[f].pc = "ExchangingToken"
  /\ \E responded \in BOOLEAN, status \in Statuses, body_parses \in BOOLEAN :
       Continue(f, AfterTokenRequest(flow[f], responded, status, body_parses))
  /\ UNCHANGED auth_flows

\* The frontend has the result of the invocation.
ResultDelivered(f) ==
  /\ flow[f].pc = "Returned"
  /\ flow' = [flow EXCEPT ![f] = IdleFlow]
  /\ UNCHANGED <<listener, backlog, auth_flows>>

NextOidc ==
  /\ \/ \E f \in Flows :
          \/ StartOidcAuth(f)
          \/ DiscoveryRequestFails(f)
          \/ DiscoveryResponse(f)
          \/ BindListener(f)
          \/ OpenBrowser(f)
          \/ AcceptConnection(f)
          \/ ReadFails(f)
          \/ ReadRequest(f)
          \/ CallbackTimeout(f)
          \/ ExchangeToken(f)
          \/ ResultDelivered(f)
     \/ ClientConnects
  /\ UNCHANGED <<vaultVars, callVars>>

\* The authorization flow does not touch the vault: it is run on an empty one.
InitOidc == Init /\ accounts_entry = None

SpecOidc == InitOidc /\ [][NextOidc]_vars

\* The runtime polls the future of start_oidc_auth until it returns: a
\* request of the client of get_client (lines 80-85) is answered or fails
\* by its timeout of 30 s, bind and open::that return, and the timer of
\* tokio::time::timeout (lines 293-296) fires after AUTH_TIMEOUT_SECS.
\* The steps of invocation f that need nothing from a client of the port.
Polled(f) ==
  /\ \/ DiscoveryRequestFails(f)
     \/ DiscoveryResponse(f)
     \/ BindListener(f)
     \/ OpenBrowser(f)
     \/ CallbackTimeout(f)
     \/ ExchangeToken(f)
  /\ UNCHANGED <<vaultVars, callVars>>

OidcFairness == \A f \in Flows : WF_vars(Polled(f))

\* The clients of the runs whose termination is checked: one of each
\* behaviour, a callback with the first sample state, and a request without a
\* code.
PatientClients ==
  {c \in Clients :
     c.behaviour = "request" =>
       c.path \in {Str(<<"/", "c", "b", "?">>) \o QCode \o QAmp \o QState \o QAb,
                   Str(<<"/", "c", "b">>)}}

NextOidcFair ==
  /\ NextOidc
  /\ \A i \in 1..Len(backlog') : backlog'[i] \in PatientClients

SpecOidcFair == InitOidc /\ [][NextOidcFair]_vars /\ OidcFairness

----------------------------------------------------------------------------
(* oidc.rs: discover_server *)

\* A key of config.json: it is absent, its value is no string, or its value
\* is a string, the empty one or a sample.
Absent == "<absent>"
NotAString == "<number>"
JsonValues == {Absent, NotAString, "", "v"}

\* The bodies of config.json that are JSON, by the six keys discover_server
\* looks for.
ConfigJson ==
  [oidcAuthority : JsonValues, oidc_authority : {Absent, "v"},
   oidcClientId : JsonValues, oidc_client_id : {Absent, "v"},
   oidcScopes : {Absent, "v"}, oidc_scopes : {Absent}]

\* config.get(a).or_else(|| config.get(b)).and_then(|v| v.as_str()): the
\* first key when it is present, and its value only if that is a string.
GetStr(config, a, b) ==
  LET v == IF config[a] # Absent THEN config[a] ELSE config[b]
  IN IF v \in {Absent, NotAString} THEN None ELSE Some(v)

\* lines 186-212: the OidcConfig of a config.json.
ExtractOidcConfig(config) ==
  LET authority == GetStr(config, "oidcAuthority", "oidc_authority")
      client_id == GetStr(config, "oidcClientId", "oidc_client_id")
      scopes == GetStr(config, "oidcScopes", "oidc_scopes")
  IN IF authority # None /\ client_id # None /\ authority[1] # ""
     THEN Some([authority |-> authority[1], client_id |-> client_id[1],
                scopes |-> scopes])
     ELSE None

DiscoveryOk(c, oidc_config) ==
  [c EXCEPT !.pc = "Returned",
            !.result = [kind |-> "Ok", msg |-> "", oidc_config |-> oidc_config]]

DiscoveryErr(c, msg) ==
  [c EXCEPT !.pc = "Returned",
            !.result = [kind |-> "DiscoveryFailed", msg |-> msg,
                        oidc_config |-> None]]

\* The frontend invokes discover_server.
DiscoverServer ==
  /\ disc.pc = "Idle"
  /\ disc' = [disc EXCEPT !.pc = "FetchingDiscovery"]

\* lines 163-167: the GET of /api/discovery gets no response.
ApiDiscoveryFails ==
  /\ disc.pc = "FetchingDiscovery"
  /\ disc' = DiscoveryErr(disc, "Failed to reach server")

\* lines 163-179: the server answers the GET of /api/discovery.
ApiDiscoveryResponse ==
  /\ disc.pc = "FetchingDiscovery"
  /\ \E status \in Statuses, body_parses \in BOOLEAN :
       LET d == [disc EXCEPT !.discovery =
                   Some([status |-> status, body_parses |-> body_parses])]
       IN disc' = IF ~IsSuccess(status)
                  THEN DiscoveryErr(d, "Server returned HTTP")
                  ELSE IF ~body_parses
                  THEN DiscoveryErr(d, "Invalid discovery response")
                  ELSE [d EXCEPT !.pc = "FetchingConfig"]

\* line 183, the arm `_ => None` of an Err: the GET of /config/config.json
\* gets no response.
ConfigRequestFails ==
  /\ disc.pc = "FetchingConfig"
  /\ disc' = DiscoveryOk(disc, None)

\* lines 183-219: the server answers the GET of /config/config.json; `body`
\* is None when it is no JSON.
ConfigResponse ==
  /\ disc.pc = "FetchingConfig"
  /\ \E status \in Statuses, body \in {None} \cup {Some(j) : j \in ConfigJson} :
       LET d == [disc EXCEPT !.config = Some([status |-> status, body |-> body])]
       IN disc' = IF ~IsSuccess(status) THEN DiscoveryOk(d, None)
                  ELSE IF body = None
                  THEN DiscoveryErr(d, "Invalid config response")
                  ELSE DiscoveryOk(d, ExtractOidcConfig(body[1]))

\* The frontend has the result.
DiscoverServerReturns ==
  /\ disc.pc = "Returned"
  /\ disc' = IdleDiscovery

NextDiscover ==
  /\ \/ DiscoverServer
     \/ ApiDiscoveryFails
     \/ ApiDiscoveryResponse
     \/ ConfigRequestFails
     \/ ConfigResponse
     \/ DiscoverServerReturns
  /\ UNCHANGED <<vaultVars, oidcVars, codec>>

SpecDiscover == InitEmpty /\ [][NextDiscover]_vars

----------------------------------------------------------------------------
(* oidc.rs: a string through urlencoding_encode and urlencoding_decode *)

\* The longest string coded, and the characters of the strings: a letter,
\* the space, '+', '%', '~', and two that UTF-8 encodes in two and in three
\* bytes (U+00E9, U+20AC).
MaxStrLen == 3
CodePoints == {97, 32, 43, 37, 126, 233, 8364}
IsAscii(s) == \A i \in 1..Len(s) : s[i] >= 32 /\ s[i] <= 126

InputStrings == UNION {[1..n -> CodePoints] : n \in 0..MaxStrLen}

InitCodec ==
  /\ VaultInit /\ accounts_entry = None
  /\ OidcInit
  /\ disc = IdleDiscovery
  /\ \E s \in InputStrings : codec = [IdleCodec EXCEPT !.pc = "input", !.s = s]

\* urlencoding_encode is applied to the string.
Encode ==
  /\ codec.pc = "input"
  /\ codec' = [codec EXCEPT !.pc = "encoded", !.encoded = urlencoding_encode(codec.s)]

\* urlencoding_decode is applied to the encoded string.
Decode ==
  /\ codec.pc = "encoded"
  /\ codec' = [codec EXCEPT !.pc = "decoded",
                            !.decoded = urlencoding_decode(codec.encoded)]

NextCodec ==
  /\ Encode \/ Decode
  /\ UNCHANGED <<vaultVars, oidcVars, disc>>

SpecCodec == InitCodec /\ [][NextCodec]_vars

----------------------------------------------------------------------------
(* The claims about the vault *)

\* The durable AccountsData.
Durable == LoadAccountsData(accounts_entry)

\* Handler h has returned Ok from command op.
ReturnedOk(h, op) ==
  cmd[h].pc = "done" /\ cmd[h].result = "Ok" /\ cmd[h].op = op

\* Whether two accounts are the same account for save_account.
SamePair(a, b) == a.server_url = b.server_url /\ a.user_email = b.user_email

\* C1: in every durable state, whatever commands ran and however they
\* overlapped, active_account_id, when set, is the id of an account in the list.
C1_ActiveIdIsAnAccount ==
  Durable.active_account_id # None =>
    \E i \in 1..Len(Durable.accounts) :
      Durable.accounts[i].id = Durable.active_account_id[1]

\* C1's case: a delete_account of the active account has returned, and the
\* durable pointer is on the account it promoted.
C1_Witness ==
  \E h \in Handlers :
    /\ ReturnedOk(h, "delete_account")
    /\ cmd[h].loaded.active_account_id = Some(cmd[h].account_id)
    /\ Durable = cmd[h].data
    /\ Durable.active_account_id # None
    /\ Durable.active_account_id # cmd[h].loaded.active_account_id

\* C3: when a command has started writing the view, the AccountsData it
\* computed is already the durable one (commands one after the other).
C3_DurableBeforeView ==
  \A h \in Handlers : cmd[h].pc = "write_key" => Durable = cmd[h].data

\* C4: the (server_url, api_key) a request read is a pair one command wrote
\* together.
C4_RequestReadsOnePublication ==
  (req.pc = "done" /\ req.result = "Sent") =>
    <<req.server_url, req.api_key>> \in published

\* The view holds the active account's server_url and stored key, or nothing
\* when no account is active.
ViewMatchesDurable ==
  IF Durable.active_account_id = None
  THEN server_url = None /\ api_key = None
  ELSE /\ api_key_entries[Durable.active_account_id[1]] # None
       /\ api_key = api_key_entries[Durable.active_account_id[1]]
       /\ \E i \in 1..Len(Durable.accounts) :
            /\ Durable.accounts[i].id = Durable.active_account_id[1]
            /\ server_url = Some(Durable.accounts[i].server_url)

\* C5: after every command that returned Ok (commands one after the other),
\* the view matches the durable state.
C5_ViewMatchesAfterOk ==
  \A h \in Handlers :
    (cmd[h].pc = "done" /\ cmd[h].result = "Ok") => ViewMatchesDurable

\* C6: whenever the durable active_account_id becomes an account's id, a key
\* is stored for that account.
C6_ActivationNeedsKey ==
  [][(/\ Durable'.active_account_id # Durable.active_account_id
      /\ Durable'.active_account_id # None)
     => api_key_entries'[Durable'.active_account_id[1]] # None]_vars

\* C7: after delete_account removed the active account of a vault of more
\* than one account, the first remaining account is active and the view holds
\* its server_url and its key.
C7_DeleteActivePromotes ==
  \A h \in Handlers :
    LET remaining == Retain(cmd[h].loaded.accounts, cmd[h].account_id)
    IN (/\ ReturnedOk(h, "delete_account")
        /\ cmd[h].loaded.active_account_id = Some(cmd[h].account_id)
        /\ Len(cmd[h].loaded.accounts) > 1
        /\ remaining # <<>>)
       => /\ Durable.active_account_id = Some(remaining[1].id)
          /\ server_url = Some(remaining[1].server_url)
          /\ api_key_entries[remaining[1].id] # None
          /\ api_key = api_key_entries[remaining[1].id]

\* The vault held one account, the active one, and handler h deleted it.
DeletedLastAccount(h) ==
  /\ ReturnedOk(h, "delete_account")
  /\ Len(cmd[h].loaded.accounts) = 1
  /\ cmd[h].loaded.accounts[1].id = cmd[h].account_id
  /\ cmd[h].loaded.active_account_id = Some(cmd[h].account_id)

\* C8: after delete_account removed the only account, which was active, the
\* durable list is empty, the durable pointer is unset and both fields of the
\* view are empty.
C8_DeleteLastClears ==
  \A h \in Handlers :
    DeletedLastAccount(h) =>
      /\ accounts_entry = Some(DefaultAccountsData)
      /\ server_url = None
      /\ api_key = None

\* C8's case: the last account was deleted while the view held credentials.
C8_Witness ==
  \E h \in Handlers : DeletedLastAccount(h) /\ accounts_entry = Some(cmd[h].data)

\* C9: no two durable accounts share (server_url, user_email); after a
\* save_account the one account of the saved pair has the given display_name
\* and, when the pair was there before, the id it had before.
C9_UpsertKeepsOneAccount ==
  /\ \A i, j \in 1..Len(Durable.accounts) :
       SamePair(Durable.accounts[i], Durable.accounts[j]) => i = j
  /\ \A h \in Handlers :
       ReturnedOk(h, "save_account") =>
         /\ \E i \in 1..Len(Durable.accounts) :
              SamePair(Durable.accounts[i], cmd[h].account)
         /\ \A i \in 1..Len(Durable.accounts) :
              SamePair(Durable.accounts[i], cmd[h].account) =>
                /\ Durable.accounts[i].display_name = cmd[h].account.display_name
                /\ \A j \in 1..Len(cmd[h].loaded.accounts) :
                     SamePair(cmd[h].loaded.accounts[j], cmd[h].account) =>
                       Durable.accounts[i].id = cmd[h].loaded.accounts[j].id

\* C9's case: an account was saved again under another display_name and
\* another caller-supplied id.
C9_Witness ==
  \E h \in Handlers :
    /\ ReturnedOk(h, "save_account")
    /\ \E j \in 1..Len(cmd[h].loaded.accounts) :
         /\ SamePair(cmd[h].loaded.accounts[j], cmd[h].account)
         /\ cmd[h].loaded.accounts[j].display_name # cmd[h].account.display_name
         /\ cmd[h].loaded.accounts[j].id # cmd[h].account.id
    /\ Len(Durable.accounts) = Len(cmd[h].loaded.accounts)

\* C10: after save_account returned Ok, the key stored under the resolved id
\* is the given one, the resolved id is active, and the view holds the saved
\* account's server_url and the given key.
C10_SaveStoresActivatesPublishes ==
  \A h \in Handlers :
    ReturnedOk(h, "save_account") =>
      LET before == {j \in 1..Len(cmd[h].loaded.accounts) :
                       SamePair(cmd[h].loaded.accounts[j], cmd[h].account)}
          resolved == IF before = {} THEN cmd[h].account.id
                      ELSE cmd[h].loaded.accounts[CHOOSE j \in before : TRUE].id
      IN /\ api_key_entries[resolved] = Some(cmd[h].api_key)
         /\ Durable.active_account_id = Some(resolved)
         /\ server_url = Some(cmd[h].account.server_url)
         /\ api_key = Some(cmd[h].api_key)

\* Handler h has returned an error from command op.
ReturnedErr(h, op) ==
  cmd[h].pc = "done" /\ cmd[h].result # "Ok" /\ cmd[h].op = op

\* C11: set_active_account of an id no account has returns AccountNotFound,
\* and of an account without a stored key returns an error; whenever
\* set_active_account returns an error, the AccountsData entry, the stored
\* keys and the view are what they were when it was invoked (commands one
\* after the other).
C11_SetActiveFailsUnchanged ==
  \A h \in Handlers :
    LET c == cmd[h]
        found == FindAccount(LoadAccountsData(c.before.accounts_entry).accounts,
                             c.account_id)
    IN /\ (c.pc = "done" /\ c.op = "set_active_account") =>
            /\ found = None => c.result \in {"AccountNotFound", "KeyringError"}
            /\ c.result = "AccountNotFound" => found = None
            /\ (found # None /\ c.before.api_key_entries[c.account_id] = None)
                 => c.result = "KeyringError"
       /\ ReturnedErr(h, "set_active_account") => Snapshot = c.before

\* C11's case: set_active_account of a listed account that has no key has
\* returned, while another account's credentials are in the view.
C11_Witness ==
  \E h \in Handlers :
    /\ ReturnedErr(h, "set_active_account")
    /\ FindAccount(Durable.accounts, cmd[h].account_id) # None
    /\ api_key_entries[cmd[h].account_id] = None
    /\ server_url # None

\* C12: after a load_accounts that found an active account with no stored
\* key, both fields of the view are empty (commands one after the other).
C12_LoadClearsWithoutKey ==
  \A h \in Handlers :
    (/\ ReturnedOk(h, "load_accounts")
     /\ ActiveAccount(cmd[h].data) # None
     /\ api_key_entries[cmd[h].data.active_account_id[1]] = None)
    => (server_url = None /\ api_key = None)

\* The AccountsData a save_account or delete_account command c makes of data.
DataAfter(c, data) ==
  IF c.op = "save_account" THEN SaveAccountData(data, c.account)
  ELSE DeleteAccountData(data, c.account_id)

\* C13: when two overlapping commands, each a save_account or a
\* delete_account, read the same AccountsData and both returned Ok, the
\* durable AccountsData is what the two make of it one after the other, in
\* one order or the other.
C13_OverlapIsSerial ==
  \A h1, h2 \in Handlers :
    (/\ h1 # h2
     /\ invocations = 2
     /\ cmd[h1].pc = "done" /\ cmd[h1].result = "Ok"
     /\ cmd[h2].pc = "done" /\ cmd[h2].result = "Ok"
     /\ {cmd[h1].op, cmd[h2].op} \subseteq {"save_account", "delete_account"}
     /\ cmd[h1].loaded = cmd[h2].loaded)
    => Durable \in {DataAfter(cmd[h2], DataAfter(cmd[h1], cmd[h1].loaded)),
                    DataAfter(cmd[h1], DataAfter(cmd[h2], cmd[h1].loaded))}

\* C14: when save_account, delete_account or set_active_account has
\* returned an error, the AccountsData entry and every stored key are what
\* they were when the command was invoked (commands one after the other).
C14_ErrorLeavesStoreUnchanged ==
  \A h \in Handlers :
    (\E op \in {"save_account", "delete_account", "set_active_account"} :
       ReturnedErr(h, op))
    => /\ accounts_entry = cmd[h].before.accounts_entry
       /\ api_key_entries = cmd[h].before.api_key_entries

\* C18: a command in which a keyring call failed, the failure to delete a
\* key that is stored included, has returned an error (commands one after
\* the other).
C18_KeyringFailureIsReturned ==
  \A h \in Handlers :
    (cmd[h].pc = "done" /\ cmd[h].failed # "") => cmd[h].result # "Ok"

\* C19: a command that is about to make, or is inside, a keyring call holds
\* no lock of AppState, however the commands overlap; nor does a command that
\* has returned.
C19_NoKeyringCallUnderLock ==
  \A h \in Handlers :
    cmd[h].pc \in KeyringCallPcs \cup {"done", "idle"} => cmd[h].held = {}

\* C19's case: a delete_account that has written both fields of the view is
\* at its save_accounts_data, while another command holds a lock.
C19_Witness ==
  \E h, g \in Handlers :
    /\ cmd[h].op = "delete_account"
    /\ cmd[h].pc = "save_data"
    /\ cmd[h].pub_key # None
    /\ cmd[g].held # {}

\* C20: after delete_account(id) returned Ok, no key is stored under id,
\* whether the account was active or not and whatever the promotion found
\* (commands one after the other).
C20_DeleteRemovesKey ==
  \A h \in Handlers :
    ReturnedOk(h, "delete_account") => api_key_entries[cmd[h].account_id] = None

\* C21: in every durable state reached from an empty vault, no two accounts
\* of the list have the same id.
C21_AccountIdsDistinct ==
  \A i, j \in 1..Len(Durable.accounts) :
    Durable.accounts[i].id = Durable.accounts[j].id => i = j

\* C29: between the commands of a sequence in which every command returned
\* Ok, started on an empty vault, the ids that have a stored key are the ids
\* of the accounts of the durable list.
C29_KeysMatchAccounts ==
  (\A h \in Handlers : cmd[h].pc \in {"idle", "done"}) =>
    {i \in AccountIds : api_key_entries[i] # None}
      = {Durable.accounts[k].id : k \in 1..Len(Durable.accounts)}

\* Command c has written its AccountsData.
HasSavedData(c) ==
  c.pc \in {"write_url", "url_locked", "write_key", "key_locked", "done"}
  /\ c.result \in {"", "Ok"}

\* The only two commands are save_account calls of h and g for one
\* (server_url, user_email), which the vault did not hold, under two ids.
RaceToCreate(h, g) ==
  /\ h # g
  /\ invocations = 2
  /\ cmd[h].op = "save_account" /\ cmd[g].op = "save_account"
  /\ SamePair(cmd[h].account, cmd[g].account)
  /\ cmd[h].account.id # cmd[g].account.id
  /\ \E c \in {cmd[h], cmd[g]} :
       c.pc # "load_data" /\ ExistingIdx(c.loaded.accounts, c.account) = 0

\* C27: when the later of the two AccountsData writes of a race to create an
\* account is made, the durable list holds one account of the pair, that
\* account is the active one, and the key stored under its id is the one
\* given to the call that makes this write.
C27_RaceLastWriteWins ==
  [][\A h, g \in Handlers :
       (/\ RaceToCreate(h, g)
        /\ HasSavedData(cmd[g])
        /\ cmd[h].pc = "save_data" /\ HasSavedData(cmd'[h]))
       => LET d == LoadAccountsData(accounts_entry')
              of_pair == {k \in 1..Len(d.accounts) :
                            SamePair(d.accounts[k], cmd[h].account)}
          IN /\ Cardinality(of_pair) = 1
             /\ \A k \in of_pair :
                  /\ d.active_account_id = Some(d.accounts[k].id)
                  /\ api_key_entries'[d.accounts[k].id] = Some(cmd[h].api_key)]_vars

\* C27's case: two save_account calls with different keys raced to create
\* one account, both read the vault before either wrote, and both returned Ok.
C27_Witness ==
  \E h, g \in Handlers :
    /\ RaceToCreate(h, g)
    /\ ReturnedOk(h, "save_account") /\ ReturnedOk(g, "save_account")
    /\ cmd[h].loaded = cmd[g].loaded
    /\ cmd[h].api_key # cmd[g].api_key
    /\ Durable = cmd[h].data

----------------------------------------------------------------------------
(* The claims about the authorization flow *)

\* The state parameter of the request flow f read is the generated state.
CallbackStateOk(f) ==
  GetParam(flow[f].callback[1], KeyState) = Some(flow[f].state)

\* C2: a flow that read a request whose state parameter is missing or is not
\* the state it generated has failed with an auth failure and has POSTed
\* nothing to the token endpoint; the failure is the state mismatch when the
\* request carried a code, that is when the listener returned a callback.  A
\* flow is at the token exchange, or has POSTed, only after a request whose
\* state parameter is the generated state.
C2_StateMismatchNeverExchanges ==
  \A f \in Flows :
    /\ (flow[f].callback # None /\ ~CallbackStateOk(f)) =>
         /\ flow[f].pc = "Returned"
         /\ flow[f].result.kind = "AuthFailed"
         /\ flow[f].token_request = None
         /\ GetParam(flow[f].callback[1], KeyCode) # None =>
              flow[f].result.msg = "State mismatch"
    /\ (flow[f].pc = "ExchangingToken" \/ flow[f].token_request # None) =>
         flow[f].callback # None /\ CallbackStateOk(f)

\* C2: a flow has failed with the state mismatch on a request that carried a
\* code and a state other than the generated one, while another request with
\* the generated state has taken a flow to the token endpoint.
C2_Witness ==
  \E f, g \in Flows :
    /\ flow[f].pc = "Returned"
    /\ flow[f].result = ErrorOf("AuthFailed", "State mismatch")
    /\ GetParam(flow[f].callback[1], KeyCode) # None
    /\ GetParam(flow[f].callback[1], KeyState) \notin {None, Some(flow[f].state)}
    /\ flow[g].token_request # None

\* C15: an invocation that has returned, with tokens, with a failure or with
\* Timeout, does not hold the callback port; the port is held only by an
\* invocation between its bind and its return.
C15_ReturnReleasesPort ==
  \A f \in Flows :
    /\ flow[f].pc \in {"Idle", "Returned"} => listener # Some(f)
    /\ listener = Some(f) =>
         flow[f].pc \in {"ListenerBound", "AwaitingCallback", "ExchangingToken"}

\* C15's case: an invocation that had the port bound has returned Timeout,
\* and another invocation has bound the port after it.
C15_Witness ==
  \E f, g \in Flows :
    /\ flow[f].pc = "Returned"
    /\ flow[f].result.kind = "Timeout"
    /\ flow[f].auth_url # None
    /\ listener = Some(g)
    /\ flow[g].pc = "AwaitingCallback"

\* Invocation f is past its bind and has not returned.
HoldsListener(f) ==
  flow[f].pc \in {"ListenerBound", "AwaitingCallback", "ExchangingToken"}

\* C16: an invocation past its bind is the one that has the port, so no two
\* are; the bind of an invocation that finds the port bound returns the
\* port-unavailable auth failure in that step, leaving the port to its holder;
\* and an invocation that returned this failure has opened no browser and
\* accepted no connection.
C16_OneFlowHoldsListener ==
  /\ [](\A f \in Flows :
         /\ HoldsListener(f) => listener = Some(f)
         /\ flow[f].result = ErrorOf("AuthFailed", "Port unavailable") =>
              /\ flow[f].pc = "Returned"
              /\ flow[f].auth_url = None
              /\ flow[f].conn = None
              /\ flow[f].token_request = None)
  /\ [][\A f \in Flows :
          (flow[f].pc = "Binding" /\ flow'[f].pc # "Binding" /\ listener # None)
          => /\ flow'[f].pc = "Returned"
             /\ flow'[f].result = ErrorOf("AuthFailed", "Port unavailable")
             /\ listener' = listener]_vars

\* C16's case: an invocation has returned the port-unavailable failure while
\* another one holds the port and waits for its callback.
C16_Witness ==
  \E f, g \in Flows :
    /\ flow[g].pc = "Returned"
    /\ flow[g].result = ErrorOf("AuthFailed", "Port unavailable")
    /\ listener = Some(f)
    /\ flow[f].pc = "AwaitingCallback"

\* C17: an invocation whose GET of the OpenID configuration was answered
\* with a status that is no success, whatever the body, or with a body that
\* is no OpenIdConfiguration, has returned DiscoveryFailed and has bound no
\* port, opened no browser and POSTed no token request.
C17_BadDiscoveryFails ==
  \A f \in Flows :
    (/\ flow[f].discovery # None
     /\ \/ ~IsSuccess(flow[f].discovery[1].status)
        \/ ~flow[f].discovery[1].body_parses)
    => /\ flow[f].pc = "Returned"
       /\ flow[f].result.kind = "DiscoveryFailed"
       /\ listener # Some(f)
       /\ flow[f].auth_url = None
       /\ flow[f].token_request = None

\* The steps of start_oidc_auth in the order of its code, and the step after
\* which a result was returned.
StepOrder ==
  <<"Idle", "Discovering", "Binding", "ListenerBound", "AwaitingCallback",
    "ExchangingToken", "Returned">>

StepNo(pc) == CHOOSE n \in 1..Len(StepOrder) : StepOrder[n] = pc

\* What invocation c has done so far is a prefix of: discovery answered,
\* browser opened, connection accepted, request read, token endpoint
\* contacted.
StepsInOrder(c) ==
  /\ c.auth_url # None => c.discovery # None /\ c.discovery[1].body_parses
  /\ c.conn # None => c.auth_url # None
  /\ c.callback # None => c.conn # None
  /\ c.token_request # None =>
       /\ c.callback # None
       /\ GetParam(c.callback[1], KeyCode) # None
       /\ GetParam(c.callback[1], KeyState) = Some(c.state)
  /\ c.token_response # None => c.token_request # None

\* C22: an invocation takes the steps of start_oidc_auth in their order, one
\* at a time, and after a step that fails none: the browser is opened while
\* this invocation holds the listener, the token endpoint is contacted after
\* a callback with a code and the generated state, Ok is returned after a 2xx
\* answer of the token endpoint, and a result once returned is not changed.
C22_StepsInOrder ==
  /\ [](\A f \in Flows :
         /\ StepsInOrder(flow[f])
         /\ flow[f].result.kind # "" <=> flow[f].pc = "Returned"
         /\ flow[f].result.kind = "Ok" =>
              /\ flow[f].token_request # None
              /\ flow[f].token_response # None
              /\ IsSuccess(flow[f].token_response[1].status))
  /\ [][\A f \in Flows :
          /\ flow'[f].pc # flow[f].pc =>
               \/ flow'[f].pc = "Returned"
               \/ flow[f].pc = "Returned" /\ flow'[f] = IdleFlow
               \/ /\ flow[f].pc # "Returned"
                  /\ StepNo(flow'[f].pc) = StepNo(flow[f].pc) + 1
          /\ (flow[f].auth_url = None /\ flow'[f].auth_url # None) =>
               listener = Some(f)
          /\ (listener # Some(f) /\ listener' = Some(f)) =>
               flow[f].pc = "Binding"]_vars

\* C22's case: an invocation returned Ok after all the steps, and another
\* returned an error of the token exchange.
C22_Witness ==
  \E f, g \in Flows :
    /\ flow[f].pc = "Returned" /\ flow[f].result.kind = "Ok"
    /\ flow[g].pc = "Returned" /\ flow[g].result.kind = "TokenExchangeFailed"
    /\ flow[g].token_response # None
    /\ ~IsSuccess(flow[g].token_response[1].status)

\* C23: the form an invocation POSTs to the token endpoint holds the redirect
\* URI of its authorization URL, the verifier whose challenge is in that URL,
\* and the code of the request it read; an answer with a status that is no
\* success makes the result TokenExchangeFailed.
C23_TokenRequestOfSameFlow ==
  \A f \in Flows :
    /\ flow[f].token_request # None =>
         /\ flow[f].auth_url # None /\ flow[f].callback # None
         /\ flow[f].token_request[1].redirect_uri = flow[f].auth_url[1].redirect_uri
         /\ generate_code_challenge(flow[f].token_request[1].code_verifier)
              = flow[f].auth_url[1].code_challenge
         /\ Some(flow[f].token_request[1].code)
              = GetParam(flow[f].callback[1], KeyCode)
    /\ (flow[f].token_response # None
        /\ ~IsSuccess(flow[f].token_response[1].status)) =>
         flow[f].result.kind = "TokenExchangeFailed"

\* C23's case: two invocations that generated different verifiers; one has
\* POSTed its form and was answered with a status that is no success.
C23_Witness ==
  \E f, g \in Flows :
    /\ flow[f].token_response # None
    /\ ~IsSuccess(flow[f].token_response[1].status)
    /\ flow[f].token_response[1].body_parses
    /\ flow[g].code_verifier \notin {"", flow[f].code_verifier}

\* The parameters of the request invocation c read.
CallbackCode(c) == GetParam(c.callback[1], KeyCode)
CallbackError(c) == GetParam(c.callback[1], KeyError)

\* C24: an invocation that read a request with a code has the listener's
\* Ok, with or without an error parameter: its result is none of the
\* listener's errors.  Without a code and with an error parameter its result
\* is the auth failure with that parameter's value, without both the auth
\* failure of no code; in these two cases the result is not the state
\* mismatch and nothing was POSTed to the token endpoint.
C24_ListenerClassifies ==
  \A f \in Flows :
    flow[f].callback # None =>
      LET c == flow[f]
          listener_errors == {"OIDC error", "No authorization code received"}
      IN /\ CallbackCode(c) # None => c.result.msg \notin listener_errors
         /\ (CallbackCode(c) = None /\ CallbackError(c) # None) =>
              /\ c.pc = "Returned"
              /\ c.result = ErrorWith("AuthFailed", "OIDC error", CallbackError(c)[1])
              /\ c.token_request = None
         /\ (CallbackCode(c) = None /\ CallbackError(c) = None) =>
              /\ c.pc = "Returned"
              /\ c.result = ErrorOf("AuthFailed", "No authorization code received")
              /\ c.token_request = None

\* C24's case: one invocation read a request with a code and an error
\* parameter and went on to the token exchange, another read a request with
\* the error parameter only.
C24_Witness ==
  \E f, g \in Flows :
    /\ flow[f].callback # None
    /\ CallbackCode(flow[f]) # None /\ CallbackError(flow[f]) # None
    /\ flow[f].pc = "ExchangingToken"
    /\ flow[g].callback # None
    /\ CallbackCode(flow[g]) = None /\ CallbackError(flow[g]) # None

\* The client of the connection sends a request with a code parameter.
SendsCode(client) ==
  client.behaviour = "request" /\ GetParam(QueryOf(client.path), KeyCode) # None

\* C25: an invocation keeps the connection it accepted until it returns, the
\* request it reads is the one sent on that connection, and when that
\* connection carries no code the invocation does not get to the token
\* exchange, whatever waits on later connections.
C25_FirstConnectionDecides ==
  /\ [](\A f \in Flows :
         flow[f].conn # None =>
           /\ flow[f].callback # None =>
                /\ flow[f].conn[1].behaviour = "request"
                /\ flow[f].callback[1] = QueryOf(flow[f].conn[1].path)
           /\ ~SendsCode(flow[f].conn[1]) =>
                /\ flow[f].pc \in {"AwaitingCallback", "Returned"}
                /\ flow[f].result.kind \in {"", "AuthFailed", "Timeout"}
                /\ flow[f].token_request = None)
  /\ [][\A f \in Flows :
          flow[f].conn # None =>
            \/ flow'[f].conn = flow[f].conn
            \/ flow[f].pc = "Returned" /\ flow'[f] = IdleFlow]_vars

\* C25's case: the accepted connection carries a request without a code
\* while a request with a code and the generated state waits on the next.
C25_Witness ==
  \E f \in Flows :
    /\ flow[f].pc = "AwaitingCallback"
    /\ flow[f].conn # None
    /\ flow[f].conn[1].behaviour = "request"
    /\ ~SendsCode(flow[f].conn[1])
    /\ backlog # <<>>
    /\ SendsCode(backlog[1])
    /\ GetParam(QueryOf(backlog[1].path), KeyState) = Some(flow[f].state)

\* The results of start_oidc_auth: Ok(TokenResponse) and the variants of
\* OidcError it returns.
Outcomes == {"Ok", "DiscoveryFailed", "AuthFailed", "TokenExchangeFailed", "Timeout"}

\* The invocation waits on a connection whose client sends nothing.
WaitsOnSilentClient(f) ==
  /\ flow[f].pc = "AwaitingCallback"
  /\ flow[f].conn # None
  /\ flow[f].conn[1].behaviour = "silent"

\* C30: an invocation that was started returns, with one of the results of
\* start_oidc_auth; an invocation that waits on a connection whose client
\* sends nothing returns, and its result is the timeout.
C30_InvocationReturns ==
  \A f \in Flows :
    /\ (flow[f].pc # "Idle") ~> (flow[f].pc = "Returned")
    /\ [](flow[f].pc = "Returned" => flow[f].result.kind \in Outcomes)
    /\ WaitsOnSilentClient(f) ~>
         (flow[f].pc = "Returned" /\ flow[f].result.kind = "Timeout")

\* C30's case: an invocation returned the timeout after it had accepted the
\* connection of a client that sent nothing.
C30_Witness ==
  \E f \in Flows :
    /\ flow[f].pc = "Returned"
    /\ flow[f].result.kind = "Timeout"
    /\ flow[f].conn # None
    /\ flow[f].conn[1].behaviour = "silent"

----------------------------------------------------------------------------
(* The claims about discover_server and the codec *)

\* The discovery document could not be fetched or parsed.
DiscoveryDocumentFailed ==
  \/ disc.discovery = None
  \/ ~IsSuccess(disc.discovery[1].status)
  \/ ~disc.discovery[1].body_parses

\* C26: discover_server returns an error only when the discovery document
\* could not be fetched or parsed; whatever happens to config.json, the
\* result is Ok, with oidc_config None when the request failed, the status
\* was no success, the body was no JSON, or the authority or the client id
\* is absent.
C26_ConfigFailureIsNoError ==
  disc.pc = "Returned" =>
    /\ disc.result.kind # "Ok" => DiscoveryDocumentFailed
    /\ (~DiscoveryDocumentFailed
        /\ \/ disc.config = None
           \/ ~IsSuccess(disc.config[1].status)
           \/ disc.config[1].body = None
           \/ GetStr(disc.config[1].body[1], "oidcAuthority", "oidc_authority") = None
           \/ GetStr(disc.config[1].body[1], "oidcClientId", "oidc_client_id") = None) =>
         disc.result.kind = "Ok" /\ disc.result.oidc_config = None

\* C28: a string that went through urlencoding_encode and then through
\* urlencoding_decode is the string it was.
C28_CodecRoundTrip ==
  codec.pc = "decoded" => codec.decoded = codec.s
====
